---- MODULE Spec2Model ----
(***************************************************************************)
(* par_io, parallel write path (src/src/write.rs): write_to_file, the      *)
(* producer threads of build_producers, the consumer threads of            *)
(* build_consumers and the seeding loop of launch, as one state machine.   *)
(* A step of a worker is one pass of its receive loop (one message         *)
(* handled to the end); a step of launch is one buffer seeded.             *)
(* The positional primitives of src/src/io (read_bytes_at, write_bytes_at) *)
(* are a second state machine, one step per pass of their retry loop.      *)
(* read_file has no source file here: its pipeline is the read variant of  *)
(* the pipeline as the specification describes it, on the same channels.   *)
(***************************************************************************)
EXTENDS Integers, Sequences, FiniteSets, TLC

\* ------------------------------------------------------------------ bounds
MaxN == 3
MaxP == 3
MaxC == 2
MaxK == 3
MaxB == 2
\* the runs with fewer threads and longer files
MaxNLong == 6
MaxPLong == 2
\* positional primitives: longest buffer, longest file, largest offset
MaxLen == 3
MaxFile == 4
MaxOff == 1
\* Width of the u64 offset and of off_t in the model of the primitives
OffBits == 6
\* Width of a machine word of the model: u64/usize arithmetic is kept modulo
\* 2^WordBits, isize::MAX is 2^(WordBits-1) - 1.
WordBits == 16

Modulus == 2 ^ WordBits
ISizeMax == 2 ^ (WordBits - 1) - 1

\* no result yet
None == [kind |-> "None"]
\* a byte of a buffer that was given a length and never written
Uninit == -1

VARIABLES
    \* arguments of write_to_file
    total_size, num_producers, num_consumers, chunks_per_producer,
    num_buffers_per_producer,
    \* environment: build profile, the chunk the callback fails on, the I/O
    \* operation that fails, what this build was seen to do on a set_len past
    \* the capacity
    build, failAt, ioFail, ub,
    \* orchestrator (write_to_file and launch on the calling thread): program
    \* counter, the chunk sizes of lines 144-152, loop indices of launch and
    \* of the join loop, running sum, returned value
    opc, sz, li, lb, h, bytes_consumed, result,
    \* the output file
    file,
    \* producer threads: state, the sizes and end_offset each closure
    \* captured, offset, prev_consumer
    ppc, psz, end_offset, offset, prev_consumer,
    \* consumer threads
    cpc, producers_end_signal_count, bytes, cres,
    \* channels: pq[i] is the queue of producer i, cq[c] of consumer c
    pq, cq,
    \* history: callback invocations and Consume messages per producer,
    \* positional writes done, number of buffers allocated, the End messages
    \* each consumer has handled
    calls, sent, writes, created, ends,
    \* positional primitives: the platform, the primitive called, its
    \* arguments as passed, the file offsets at which the OS reports an
    \* error, the buffer and the file, the mutable offset, the loop counters,
    \* where the call is, what it returned, and the values the OS calls
    \* returned so far
    platform, io_op, io_arg, io_err, io_buffer, io_file, io_offset,
    data_read, written, io_pc, io_result, rets,
    \* read_file: what each consumer has collected from its callback
    collected

args == <<total_size, num_producers, num_consumers, chunks_per_producer,
          num_buffers_per_producer>>
env == <<build, failAt, ioFail, ub>>
orch == <<opc, sz, li, lb, h, bytes_consumed, result>>
prod == <<ppc, psz, end_offset, offset, prev_consumer>>
cons == <<cpc, producers_end_signal_count, bytes, cres>>
hist == <<calls, sent, writes, created, ends>>
prim == <<platform, io_op, io_arg, io_err, io_buffer, io_file, io_offset,
          data_read, written, io_pc, io_result, rets>>
vars == <<args, env, orch, file, prod, cons, pq, cq, hist, prim, collected>>

Producers == 0 .. (num_producers - 1)
Consumers == 0 .. (num_consumers - 1)

Min(a, b) == IF a <= b THEN a ELSE b
Max(a, b) == IF a >= b THEN a ELSE b

\* ------------------------------------------------------- machine arithmetic
\* u64 operations: the wrapped value, and whether the exact value is out of
\* range (a panic in a debug build, a silent wrap in a release build).
USub(a, b) == (a - b + Modulus) % Modulus
UAdd(a, b) == (a + b) % Modulus
UMul(a, b) == (a * b) % Modulus
SubOverflows(a, b) == a < b
AddOverflows(a, b) == a + b >= Modulus
MulOverflows(a, b) == a * b >= Modulus

\* ceil(a / b) as the source writes it: (a + b - 1) / b
CeilDiv(a, b) == USub(UAdd(a, b), 1) \div b
CeilDivOverflows(a, b) == AddOverflows(a, b) \/ SubOverflows(UAdd(a, b), 1)

\* ---------------------------------------------------------------- partition
\* write_to_file, lines 144-152
WriteSizes(n, p, k) ==
    LET pcs   == CeilDiv(n, p)
        m1    == UMul(p - 1, pcs)
        lpcs  == USub(n, m1)
        tcs   == CeilDiv(pcs, k)
        m2    == UMul(k - 1, tcs)
        ltcs  == USub(pcs, m2)
        lptcs == CeilDiv(lpcs, k)
        m3    == UMul(k - 1, lptcs)
        llptcs == USub(lpcs, m3)
    IN [producer_chunk_size |-> pcs,
        last_producer_chunk_size |-> lpcs,
        task_chunk_size |-> tcs,
        last_task_chunk_size |-> ltcs,
        last_prod_task_chunk_size |-> lptcs,
        last_last_prod_task_chunk_size |-> llptcs,
        overflow |-> \/ CeilDivOverflows(n, p)
                     \/ MulOverflows(p - 1, pcs) \/ SubOverflows(n, m1)
                     \/ CeilDivOverflows(pcs, k)
                     \/ MulOverflows(k - 1, tcs) \/ SubOverflows(pcs, m2)
                     \/ CeilDivOverflows(lpcs, k)
                     \/ MulOverflows(k - 1, lptcs) \/ SubOverflows(lpcs, m3)]

\* write_to_file, lines 169-171
ReservedSize(s) ==
    Max(Max(s.last_task_chunk_size, s.last_last_prod_task_chunk_size),
        s.task_chunk_size)

\* build_producers, lines 212-216: the sizes the producer closures capture
ProducerSizes(n, p, k) ==
    LET pcs   == CeilDiv(n, p)
        lpcs  == USub(n, UMul(p - 1, pcs))
    IN [producer_chunk_size |-> pcs,
        last_producer_chunk_size |-> lpcs,
        task_chunk_size |-> CeilDiv(pcs, k),
        last_prod_task_chunk_size |-> CeilDiv(lpcs, k)]

\* build_producers, line 226: first offset of producer i
StartOffset(ps, i) == UMul(ps.producer_chunk_size, i)

\* (mutant) the last producer is given a full producer_chunk_size too
EndOffsetAllFull(ps, i) == UAdd(StartOffset(ps, i), ps.producer_chunk_size)

\* build_producers, lines 227-231: end of the range of producer i
EndOffset(ps, i) ==
    IF i # num_producers - 1
    THEN UAdd(StartOffset(ps, i), ps.producer_chunk_size)
    ELSE UAdd(StartOffset(ps, i), ps.last_producer_chunk_size)

\* build_producers, lines 238-242: length of the next chunk of producer i
chunk_size(i) ==
    IF i # num_producers - 1
    THEN Min(psz.task_chunk_size, USub(end_offset[i], offset[i]))
    ELSE Min(psz.last_prod_task_chunk_size, USub(end_offset[i], offset[i]))

\* (mutant) the consumer chosen last time is chosen again
select_tx_same(i, previous_consumer_id, nc, np) ==
    previous_consumer_id % nc

\* select_tx, lines 81-88
select_tx(i, previous_consumer_id, nc, np) ==
    (previous_consumer_id + 1) % nc

\* The bytes the producer callback of the round-trip test writes for the
\* chunk at offset off (tests/read-write.rs, lines 111-118): the pattern is
\* byte p + 1 at position p.
PatternByte(p) == p + 1
FillBuffer(off, len) == [k \in 1 .. len |-> PatternByte(off + k - 1)]

\* The callback fails on the chunk that starts at failAt.
CallbackFails(off) == off \in failAt

\* ----------------------------------------------------------------- messages
Produce(cfg, buffer) == [type |-> "Produce", cfg |-> cfg, buffer |-> buffer]
Consume(cfg, buffer) == [type |-> "Consume", cfg |-> cfg, buffer |-> buffer]
End(prod_id, np) == [type |-> "End", prod_id |-> prod_id, num_producers |-> np]
Error(off) == [type |-> "Error", err |-> [offset |-> off]]

Ok(n) == [kind |-> "Ok", bytes |-> n]
ErrProducer(e) == [kind |-> "Producer", offset |-> e.offset]
ErrIO == [kind |-> "IO"]
ErrOther == [kind |-> "Other"]

CarriesConfig(m) == m.type \in {"Produce", "Consume"}
Range(q) == {q[k] : k \in 1 .. Len(q)}
\* every message queued in some channel
InFlight == UNION ({Range(pq[i]) : i \in Producers}
                   \cup {Range(cq[c]) : c \in Consumers})

\* ----------------------------------------------------------------- channels
\* A receiver lives until its thread returns.
ProducerAlive(i) == ppc[i] = "recv"
ConsumerAlive(c) == cpc[c] \in {"open", "recv", "spin"}

\* Some Sender of producer i's channel exists: tx_producers (from
\* build_producers until launch returns) or a cfg.producer_tx in flight.
ProducerHasSender(i) ==
    \/ opc \in {"build_consumers", "launch"}
    \/ \E m \in InFlight : CarriesConfig(m) /\ m.cfg.producer_tx = i

\* Some Sender of a consumer's channel exists: tx_consumers (from
\* build_consumers until launch returns) or a cfg.consumers in flight.
ConsumerHasSender(c) ==
    \/ opc = "launch"
    \/ \E m \in InFlight : CarriesConfig(m)

\* (mutant) the message is sent to the first consumer only
BroadcastFirstOnly(q, m) ==
    [c \in Consumers |->
        IF ConsumerAlive(c) /\ c = 0 THEN Append(q[c], m) ELSE q[c]]

\* send on every consumer channel; a send to an exited consumer fails and
\* the failure is ignored (lines 261-263 and 277-280)
Broadcast(q, m) ==
    [c \in Consumers |-> IF ConsumerAlive(c) THEN Append(q[c], m) ELSE q[c]]

\* ---------------------------------------------------------------------- file
\* pwrite of data at off: the file grows when the write ends past its end
WriteAt(f, off, data) ==
    [k \in 1 .. Max(Len(f), off + Len(data)) |->
        IF k > off /\ k <= off + Len(data) THEN data[k - off]
        ELSE IF k <= Len(f) THEN f[k] ELSE 0]

\* The I/O operation that fails: none, File::create, the open of one
\* consumer, or the positional write at one offset.
IoPlan(op, x) == [op |-> op, at |-> x]
NoIoFailure == IoPlan("none", 0)
WriteFails(off) == ioFail.op = "write" /\ ioFail.at = off
OpenFails(c) == ioFail.op = "open" /\ ioFail.at = c
CreateFails == ioFail.op = "create"

\* ---------------------------------------------------------------------- init
IoPlans(n, c) ==
    {NoIoFailure, IoPlan("create", 0)}
        \cup {IoPlan("open", x) : x \in 0 .. (c - 1)}
        \cup {IoPlan("write", o) : o \in 0 .. (n - 1)}

\* no positional primitive has been called
PrimIdle ==
    /\ platform = "unix"
    /\ io_op = "none"
    /\ io_arg = [offset |-> 0, buffer |-> <<>>, file |-> <<>>]
    /\ io_err = {}
    /\ io_buffer = <<>>
    /\ io_file = <<>>
    /\ io_offset = 0
    /\ data_read = 0
    /\ written = 0
    /\ io_pc = "idle"
    /\ io_result = None
    /\ rets = {}

PipelineIdle(n, p, c, k, b, bd, fa, io) ==
    /\ total_size = n
    /\ num_producers = p
    /\ num_consumers = c
    /\ chunks_per_producer = k
    /\ num_buffers_per_producer = b
    /\ build = bd
    /\ failAt = fa
    /\ ioFail = io
    /\ ub = "none"
    /\ opc = "start"
    /\ sz = WriteSizes(0, 1, 1)
    /\ li = 0
    /\ lb = 0
    /\ h = 0
    /\ bytes_consumed = 0
    /\ result = None
    /\ ppc = [i \in 0 .. (p - 1) |-> "unborn"]
    /\ psz = ProducerSizes(0, 1, 1)
    /\ end_offset = [i \in 0 .. (p - 1) |-> 0]
    /\ offset = [i \in 0 .. (p - 1) |-> 0]
    /\ prev_consumer = [i \in 0 .. (p - 1) |-> 0]
    /\ cpc = [x \in 0 .. (c - 1) |-> "unborn"]
    /\ producers_end_signal_count = [x \in 0 .. (c - 1) |-> 0]
    /\ bytes = [x \in 0 .. (c - 1) |-> 0]
    /\ cres = [x \in 0 .. (c - 1) |-> None]
    /\ pq = [i \in 0 .. (p - 1) |-> <<>>]
    /\ cq = [x \in 0 .. (c - 1) |-> <<>>]
    /\ calls = [i \in 0 .. (p - 1) |-> <<>>]
    /\ sent = [i \in 0 .. (p - 1) |-> <<>>]
    /\ writes = {}
    /\ created = 0
    /\ ends = [x \in 0 .. (c - 1) |-> <<>>]
    /\ collected = [x \in 0 .. (c - 1) |-> <<>>]

PipelineState(n, p, c, k, b, bd, fa, io) ==
    /\ PipelineIdle(n, p, c, k, b, bd, fa, io)
    /\ file = [exists |-> FALSE, data |-> <<>>]

InitState(n, p, c, k, b, bd, fa, io) ==
    PipelineState(n, p, c, k, b, bd, fa, io) /\ PrimIdle

Init ==
    \E n \in 0 .. MaxN, p \in 1 .. MaxP, c \in 1 .. MaxC, k \in 1 .. MaxK,
       b \in 1 .. MaxB, bd \in {"debug", "release"} :
        \E fa \in {{}} \cup {{o} : o \in 0 .. n}, io \in IoPlans(n, c) :
            InitState(n, p, c, k, b, bd, fa, io)

\* --------------------------------------------------------------- orchestrator
\* write_to_file, lines 144-152: a debug build panics on the first
\* overflowing operation, a release build goes on with the wrapped values.
ComputeSizes ==
    /\ opc = "start"
    /\ sz' = WriteSizes(total_size, num_producers, chunks_per_producer)
    /\ opc' = IF build = "debug" /\ sz'.overflow THEN "panic" ELSE "create"
    /\ UNCHANGED <<prim, collected, args,
                   env, li, lb, h, bytes_consumed, result, file, prod,
                   cons, pq, cq, hist>>

\* (mutant) the file is created and not given its length
NotTruncatedFile(n) == <<>>

\* write_to_file, line 154: the file after set_len(n), n zero bytes
TruncatedFile(n) == [k \in 1 .. n |-> 0]

\* write_to_file, lines 153-155: File::create, set_len(total_size), drop
CreateFile ==
    /\ opc = "create"
    /\ IF CreateFails
       THEN /\ opc' = "done"
            /\ result' = ErrOther
            /\ file' = file
       ELSE /\ opc' = "build_producers"
            /\ result' = result
            /\ file' = [exists |-> TRUE, data |-> TruncatedFile(total_size)]
    /\ UNCHANGED <<prim, collected, args,
                   env, sz, li, lb, h, bytes_consumed, prod, cons, pq,
                   cq, hist>>

\* build_producers, lines 223-288: one channel and one thread per producer;
\* each thread starts blocked in rx.recv()
BuildProducers ==
    /\ opc = "build_producers"
    /\ opc' = "build_consumers"
    /\ psz' = ProducerSizes(total_size, num_producers, chunks_per_producer)
    /\ ppc' = [i \in Producers |-> "recv"]
    /\ offset' = [i \in Producers |-> StartOffset(psz', i)]
    /\ end_offset' = [i \in Producers |-> EndOffset(psz', i)]
    /\ prev_consumer' = [i \in Producers |-> i]
    /\ UNCHANGED <<prim, collected, args,
                   env, sz, li, lb, h, bytes_consumed, result, file,
                   cons, pq, cq, hist>>

\* build_consumers, lines 298-355: one channel and one thread per consumer;
\* each thread starts by opening the file
BuildConsumers ==
    /\ opc = "build_consumers"
    /\ opc' = "launch"
    /\ cpc' = [c \in Consumers |-> "open"]
    /\ UNCHANGED <<prim, collected, args,
                   env, sz, li, lb, h, bytes_consumed, result, file,
                   prod, producers_end_signal_count, bytes, cres, pq, cq,
                   hist>>

\* The arguments of launch as write_to_file passes them (lines 172-181),
\* bound by position to launch's parameters (lines 368-377).
LaunchArgs ==
    [producer_chunk_size |-> sz.producer_chunk_size,
     task_chunk_size |-> sz.last_producer_chunk_size,
     last_producer_task_chunk_size |-> sz.task_chunk_size,
     chunks_per_producer |-> chunks_per_producer,
     reserved_size |-> ReservedSize(sz),
     num_buffers_per_producer |-> num_buffers_per_producer]

\* (mutant) max instead of min
num_buffers_max ==
    Max(LaunchArgs.chunks_per_producer, LaunchArgs.num_buffers_per_producer)

\* launch, line 385
num_buffers ==
    Min(LaunchArgs.chunks_per_producer, LaunchArgs.num_buffers_per_producer)

\* launch, lines 388-392: the length given to a seeded buffer
seed_len(i) ==
    IF i # num_producers - 1 THEN LaunchArgs.task_chunk_size
    ELSE LaunchArgs.last_producer_task_chunk_size

\* launch, line 393: the capacity reserve(2 * reserved_size) guarantees
seed_cap == UMul(2, LaunchArgs.reserved_size)

\* Vec::set_len past the capacity is undefined behaviour: the length is
\* stored as given, or the precondition check of the build aborts the
\* process; a build that stored it once does so every time.
SetLenOutcomes(len, cap) ==
    IF len <= cap \/ ub = "ignored" THEN {"set"} ELSE {"set", "abort"}

\* launch, lines 380-406, one pass of the inner loop: allocate one buffer
\* and send it to producer li; the last pass returns Ok and drops
\* tx_producers and tx_consumers.
LaunchSend ==
    /\ opc = "launch"
    /\ \E outcome \in SetLenOutcomes(seed_len(li), seed_cap) :
        LET cfg == [offset |-> UMul(li, LaunchArgs.producer_chunk_size),
                    producer_tx |-> li]
            buffer == [id |-> <<li, lb>>, cap |-> seed_cap,
                       data |-> [k \in 1 .. seed_len(li) |-> Uninit]]
            lastPass == lb + 1 >= num_buffers /\ li + 1 >= num_producers
        IN IF seed_cap > ISizeMax
           THEN \* reserve: capacity overflow
                /\ opc' = "panic"
                /\ UNCHANGED <<li, lb, result, pq, created, ub>>
           ELSE IF outcome = "abort"
           THEN /\ opc' = "abort"
                /\ created' = created + 1
                /\ UNCHANGED <<li, lb, result, pq, ub>>
           ELSE IF ~ProducerAlive(li)
           THEN \* send fails: launch returns Err(Other), line 403
                /\ opc' = "done"
                /\ result' = ErrOther
                /\ created' = created + 1
                /\ ub' = IF seed_len(li) > seed_cap THEN "ignored" ELSE ub
                /\ UNCHANGED <<li, lb, pq>>
           ELSE /\ pq' = [pq EXCEPT ![li] = Append(@, Produce(cfg, buffer))]
                /\ ub' = IF seed_len(li) > seed_cap THEN "ignored" ELSE ub
                /\ created' = created + 1
                /\ opc' = IF lastPass THEN "join" ELSE "launch"
                /\ lb' = IF lb + 1 >= num_buffers THEN 0 ELSE lb + 1
                /\ li' = IF lb + 1 >= num_buffers THEN li + 1 ELSE li
                /\ result' = result
    /\ UNCHANGED <<prim, collected, args,
                   build, failAt, ioFail, sz, h, bytes_consumed,
                   file, prod, cons, cq, calls, sent, writes, ends>>

\* write_to_file, lines 183-199: join the consumers in order, add up the
\* byte counts, return the first error
Join ==
    /\ opc = "join"
    /\ cpc[h] \in {"ok", "err", "panic"}
    /\ IF cpc[h] = "panic"
       THEN /\ opc' = "done"
            /\ result' = ErrOther
            /\ UNCHANGED <<h, bytes_consumed>>
       ELSE IF cres[h].kind # "Ok"
       THEN /\ opc' = "done"
            /\ result' = cres[h]
            /\ UNCHANGED <<h, bytes_consumed>>
       ELSE IF h + 1 >= num_consumers
       THEN /\ opc' = "done"
            /\ result' = Ok(bytes_consumed + cres[h].bytes)
            /\ bytes_consumed' = bytes_consumed + cres[h].bytes
            /\ h' = h
       ELSE /\ opc' = "join"
            /\ bytes_consumed' = bytes_consumed + cres[h].bytes
            /\ h' = h + 1
            /\ result' = result
    /\ UNCHANGED <<prim, collected, args,
                   env, sz, li, lb, file, prod, cons, pq, cq, hist>>

\* ------------------------------------------------------------------ producer
\* (mutant) cfg.offset is left as it was received
ConsumeCfgStale(cfg, off, next) == cfg

\* (mutant) cfg.offset is set to the start of the file
ConsumeCfgOffsetZero(cfg, off, next) == [cfg EXCEPT !.offset = 0]

\* (mutant) the config is given the handle of the first producer
ConsumeCfgToFirst(cfg, off, next) ==
    [cfg EXCEPT !.offset = off, !.producer_tx = 0]

\* (mutant) cfg.offset is set after the offset was advanced
ConsumeCfgAfterAdvance(cfg, off, next) == [cfg EXCEPT !.offset = next]

\* build_producers, lines 267-268: the offset the Consume message carries
\* is the offset before it is advanced
ConsumeCfg(cfg, off, next) == [cfg EXCEPT !.offset = off]

\* build_producers, line 275: the range of the producer is exhausted
RangeDone(off, i) == off >= end_offset[i]

\* build_producers, lines 237-285, one pass of the loop of producer i on a
\* received Produce message.  A returning thread drops its receiver, which
\* discards what is still queued.
ProducerRecv(i) ==
    /\ opc # "abort"
    /\ ppc[i] = "recv"
    /\ pq[i] # <<>>
    /\ LET msg == Head(pq[i])
           len == chunk_size(i)
           c == select_tx(i, prev_consumer[i], num_consumers, num_producers)
           buffer == [msg.buffer EXCEPT !.data = FillBuffer(offset[i], len)]
           next == UAdd(offset[i], len)
           cfg == ConsumeCfg(msg.cfg, offset[i], next)
           queued == [cq EXCEPT ![c] = Append(@, Consume(cfg, buffer))]
       IN IF \/ build = "debug" /\ SubOverflows(end_offset[i], offset[i])
             \/ msg.buffer.cap < len
          THEN \* overflow check or assert!(capacity >= chunk_size), line 243
               /\ ppc' = [ppc EXCEPT ![i] = "panic"]
               /\ pq' = [pq EXCEPT ![i] = <<>>]
               /\ UNCHANGED <<offset, prev_consumer, cq, calls, sent>>
          ELSE IF CallbackFails(offset[i])
          THEN \* lines 260-265
               /\ calls' = [calls EXCEPT ![i] =
                     Append(@, [offset |-> offset[i], len |-> len,
                                id |-> msg.buffer.id, ok |-> FALSE])]
               /\ cq' = Broadcast(cq, Error(offset[i]))
               /\ ppc' = [ppc EXCEPT ![i] = "err"]
               /\ pq' = [pq EXCEPT ![i] = <<>>]
               /\ prev_consumer' = [prev_consumer EXCEPT ![i] = c]
               /\ UNCHANGED <<offset, sent>>
          ELSE \* lines 266-283
               /\ calls' = [calls EXCEPT ![i] =
                     Append(@, [offset |-> offset[i], len |-> len,
                                id |-> msg.buffer.id, ok |-> TRUE])]
               /\ prev_consumer' = [prev_consumer EXCEPT ![i] = c]
               /\ offset' = [offset EXCEPT ![i] = next]
               /\ IF ~ConsumerAlive(c)
                  THEN \* send fails: return Err, lines 269-274
                       /\ ppc' = [ppc EXCEPT ![i] = "err"]
                       /\ pq' = [pq EXCEPT ![i] = <<>>]
                       /\ UNCHANGED <<cq, sent>>
                  ELSE /\ sent' = [sent EXCEPT ![i] =
                             Append(@, [offset |-> cfg.offset,
                                        len |-> Len(buffer.data),
                                        consumer |-> c,
                                        id |-> buffer.id])]
                       /\ IF RangeDone(next, i)
                          THEN /\ cq' = Broadcast(queued,
                                                  End(i, num_producers))
                               /\ ppc' = [ppc EXCEPT ![i] = "ok"]
                               /\ pq' = [pq EXCEPT ![i] = <<>>]
                          ELSE /\ cq' = queued
                               /\ ppc' = ppc
                               /\ pq' = [pq EXCEPT ![i] = Tail(@)]
    /\ UNCHANGED <<prim, collected, args,
                   env, orch, file, psz, end_offset, cons, writes,
                   created, ends>>

\* build_producers, lines 237 and 286: rx.recv() fails once the queue is
\* empty and every Sender is gone; the loop ends and the thread returns Ok
\* without sending End.
ProducerDisconnected(i) ==
    /\ opc # "abort"
    /\ ppc[i] = "recv"
    /\ pq[i] = <<>>
    /\ ~ProducerHasSender(i)
    /\ ppc' = [ppc EXCEPT ![i] = "ok"]
    /\ UNCHANGED <<prim, collected, args,
                   env, orch, file, psz, end_offset, offset,
                   prev_consumer, cons, pq, cq, hist>>

\* ------------------------------------------------------------------ consumer
\* (mutant) the capacity of the buffer is counted instead of its length
BytesAfterConsumeCap(b, buffer) == b + buffer.cap

\* build_consumers, line 323
BytesAfterConsume(b, buffer) == b + Len(buffer.data)

\* build_consumers, line 324: where the buffer is written
ConsumerWriteOffset(cfg) == cfg.offset

\* (mutant) the consumer stops one End message short
AllProducersEndedOneShort(count, np) == count + 1 >= np

\* (mutant) the consumer stops at the second End message at the latest
AllProducersEndedAtTwo(count, np) == count >= np \/ count >= 2

\* (mutant) the first End message ends the consumer
AllProducersEndedFirst(count, np) == count >= 1

\* build_consumers, line 336
AllProducersEnded(count, np) == count >= np

\* (mutant) the buffer is queued although the producer is gone
ReturnBufferAnyway(q, cfg, buffer) ==
    [q EXCEPT ![cfg.producer_tx] = Append(@, Produce(cfg, buffer))]

\* (mutant) the buffer goes back with the config and with its clone
ReturnBufferTwice(q, cfg, buffer) ==
    IF ProducerAlive(cfg.producer_tx)
    THEN [q EXCEPT ![cfg.producer_tx] =
             Append(Append(@, Produce(cfg, buffer)), Produce(cfg, buffer))]
    ELSE q

\* build_consumers, line 325: the buffer is sent back on cfg.producer_tx
\* with a clone of the config; a failed send is ignored and the buffer
\* dropped
ReturnBuffer(q, cfg, buffer) ==
    IF ProducerAlive(cfg.producer_tx)
    THEN [q EXCEPT ![cfg.producer_tx] = Append(@, Produce(cfg, buffer))]
    ELSE q

\* build_consumers, lines 306-309: open the file for writing
ConsumerOpen(c) ==
    /\ opc # "abort"
    /\ cpc[c] = "open"
    /\ IF OpenFails(c)
       THEN /\ cpc' = [cpc EXCEPT ![c] = "err"]
            /\ cres' = [cres EXCEPT ![c] = ErrIO]
            /\ cq' = [cq EXCEPT ![c] = <<>>]
       ELSE /\ cpc' = [cpc EXCEPT ![c] = "recv"]
            /\ UNCHANGED <<cres, cq>>
    /\ UNCHANGED <<prim, collected, args,
                   env, orch, file, prod, producers_end_signal_count,
                   bytes, pq, hist>>

\* build_consumers, lines 317-343, one pass of the loop of consumer c on a
\* received message
ConsumerRecv(c) ==
    /\ opc # "abort"
    /\ cpc[c] = "recv"
    /\ cq[c] # <<>>
    /\ LET msg == Head(cq[c])
       IN CASE msg.type = "Error" ->
                 /\ cpc' = [cpc EXCEPT ![c] = "err"]
                 /\ cres' = [cres EXCEPT ![c] = ErrProducer(msg.err)]
                 /\ cq' = [cq EXCEPT ![c] = <<>>]
                 /\ UNCHANGED <<producers_end_signal_count, bytes, file, pq,
                                writes, ends>>
            [] msg.type = "Consume" ->
                 LET at == ConsumerWriteOffset(msg.cfg)
                 IN /\ bytes' = [bytes EXCEPT ![c] =
                                    BytesAfterConsume(@, msg.buffer)]
                    /\ IF WriteFails(at)
                       THEN \* write_bytes_at(..)?, line 324
                            /\ cpc' = [cpc EXCEPT ![c] = "err"]
                            /\ cres' = [cres EXCEPT ![c] = ErrIO]
                            /\ cq' = [cq EXCEPT ![c] = <<>>]
                            /\ UNCHANGED <<file, pq, writes>>
                       ELSE /\ file' = [file EXCEPT !.data =
                                   WriteAt(@, at, msg.buffer.data)]
                            /\ writes' = writes \cup
                                   {[offset |-> at,
                                     data |-> msg.buffer.data,
                                     id |-> msg.buffer.id,
                                     consumer |-> c]}
                            /\ pq' = ReturnBuffer(pq, msg.cfg, msg.buffer)
                            /\ cq' = [cq EXCEPT ![c] = Tail(@)]
                            /\ UNCHANGED <<cpc, cres>>
                    /\ UNCHANGED <<producers_end_signal_count, ends>>
            [] msg.type = "End" ->
                 /\ producers_end_signal_count' =
                        [producers_end_signal_count EXCEPT ![c] = @ + 1]
                 /\ ends' = [ends EXCEPT ![c] = Append(@, msg.prod_id)]
                 /\ IF AllProducersEnded(producers_end_signal_count[c] + 1,
                                         msg.num_producers)
                    THEN /\ cpc' = [cpc EXCEPT ![c] = "ok"]
                         /\ cres' = [cres EXCEPT ![c] = Ok(bytes[c])]
                         /\ cq' = [cq EXCEPT ![c] = <<>>]
                    ELSE /\ cq' = [cq EXCEPT ![c] = Tail(@)]
                         /\ UNCHANGED <<cpc, cres>>
                 /\ UNCHANGED <<bytes, file, pq, writes>>
            [] OTHER ->
                 \* panic!("Wrong message type"), line 341
                 /\ cpc' = [cpc EXCEPT ![c] = "panic"]
                 /\ cq' = [cq EXCEPT ![c] = <<>>]
                 /\ UNCHANGED <<producers_end_signal_count, bytes, cres,
                                file, pq, writes, ends>>
    /\ UNCHANGED <<prim, collected, args,
                   env, orch, prod, calls, sent, created>>

\* build_consumers, lines 312-350: rx.recv() fails once the queue is empty
\* and every Sender is gone; the else branch does not leave the loop, so
\* the thread keeps calling recv() and never returns.
ConsumerSpin(c) ==
    /\ opc # "abort"
    /\ cpc[c] = "recv"
    /\ cq[c] = <<>>
    /\ ~ConsumerHasSender(c)
    /\ cpc' = [cpc EXCEPT ![c] = "spin"]
    /\ UNCHANGED <<prim, collected, args,
                   env, orch, file, prod, producers_end_signal_count,
                   bytes, cres, pq, cq, hist>>

\* ---------------------------------------------------------------------- spec
Next ==
    \/ ComputeSizes
    \/ CreateFile
    \/ BuildProducers
    \/ BuildConsumers
    \/ LaunchSend
    \/ Join
    \/ \E i \in Producers : ProducerRecv(i)
    \/ \E i \in Producers : ProducerDisconnected(i)
    \/ \E c \in Consumers : ConsumerOpen(c)
    \/ \E c \in Consumers : ConsumerRecv(c)
    \/ \E c \in Consumers : ConsumerSpin(c)

Spec == Init /\ [][Next]_vars

\* ------------------------------------------------------ positional primitives
\* offset as off_t (io_at_unix.rs, lines 31 and 59): the u64 read as a signed
\* word
OffModulus == 2 ^ OffBits
off_t(x) == IF x > 2 ^ (OffBits - 1) - 1 THEN x - OffModulus ELSE x

\* offset += n on the u64 offset: the wrapped value, and whether it wraps
OffAdd(a, b) == (a + b) % OffModulus
OffAddOverflows(a, b) == a + b >= OffModulus

\* What pread(fd, buf, count, off) can return on file f: -1 on an OS error
\* (a negative off, or an offset the device fails on), 0 at or past the end
\* of the file, else the number of bytes transferred, at least 1 and at
\* most what was asked for and what the file holds from off.
pread(f, count, off) ==
    IF off < 0 \/ off \in io_err THEN {-1}
    ELSE IF off >= Len(f) THEN {0}
    ELSE 1 .. Min(count, Len(f) - off)

\* What pwrite(fd, buf, count, off) can return: -1 on an OS error, else the
\* number of bytes transferred, at least 1 and at most count.
pwrite(f, count, off) ==
    IF off < 0 \/ off \in io_err THEN {-1} ELSE 1 .. count

\* The offset handed to the OS call: cast to off_t on unix (io_at_unix.rs,
\* lines 31 and 59), the u64 as it is for seek_read and seek_write
\* (io_at_windows.rs, lines 13 and 27).
OsOffset(off) == IF platform = "unix" THEN off_t(off) ELSE off

\* the buffer after ret bytes of f at off were copied to position pos
CopyIn(buf, pos, f, off, ret) ==
    [k \in 1 .. Len(buf) |->
        IF k > pos /\ k <= pos + ret THEN f[off + (k - pos)] ELSE buf[k]]

OkUnit == [kind |-> "Ok"]

\* ReadError::Other on unix (io_at_unix.rs, lines 33-37), ReadError::IO on
\* windows (io_at_windows.rs, line 14)
ReadErr == IF platform = "unix" THEN ErrOther ELSE ErrIO

\* WriteError::Other on unix (io_at_unix.rs, lines 61-65), WriteError::IO on
\* windows (io_at_windows.rs, line 28)
WriteErr == IF platform = "unix" THEN ErrOther ELSE ErrIO

\* io_at_unix.rs lines 42 and 70, io_at_windows.rs lines 15 and 29: the
\* offset is advanced by the running total
AdvanceOffset(off, total, ret) == OffAdd(off, total)

\* read_bytes_at (io_at_unix.rs lines 20-45, io_at_windows.rs lines 8-18),
\* one test of the loop condition and, when it holds, one pass of the loop
read_bytes_at ==
    /\ io_op = "read"
    /\ io_pc = "loop"
    /\ IF ~(data_read < Len(io_buffer))
       THEN /\ io_pc' = "done"
            /\ io_result' = OkUnit
            /\ UNCHANGED <<io_buffer, io_offset, data_read, rets>>
       ELSE \E ret \in pread(io_file, Len(io_buffer) - data_read,
                              OsOffset(io_offset)) :
            /\ rets' = rets \cup {ret}
            /\ IF ret < 0
               THEN /\ io_pc' = "done"
                    /\ io_result' = ReadErr
                    /\ UNCHANGED <<io_buffer, io_offset, data_read>>
               ELSE /\ io_buffer' = CopyIn(io_buffer, data_read, io_file,
                                           io_offset, ret)
                    /\ data_read' = data_read + ret
                    /\ IF build = "debug"
                          /\ OffAddOverflows(io_offset, data_read')
                       THEN /\ io_pc' = "panic"
                            /\ UNCHANGED io_offset
                       ELSE /\ io_pc' = io_pc
                            /\ io_offset' =
                                  AdvanceOffset(io_offset, data_read', ret)
                    /\ io_result' = io_result
    /\ UNCHANGED <<collected, args, env, orch, file, prod, cons, pq, cq, hist,
                   platform,
                   io_op, io_arg, io_err, io_file, written>>

\* write_bytes_at (io_at_unix.rs lines 49-73, io_at_windows.rs lines
\* 22-32), one test of the loop condition and, when it holds, one pass
write_bytes_at ==
    /\ io_op = "write"
    /\ io_pc = "loop"
    /\ IF ~(written < Len(io_buffer))
       THEN /\ io_pc' = "done"
            /\ io_result' = OkUnit
            /\ UNCHANGED <<io_file, io_offset, written, rets>>
       ELSE \E ret \in pwrite(io_file, Len(io_buffer) - written,
                               OsOffset(io_offset)) :
            /\ rets' = rets \cup {ret}
            /\ IF ret < 0
               THEN /\ io_pc' = "done"
                    /\ io_result' = WriteErr
                    /\ UNCHANGED <<io_file, io_offset, written>>
               ELSE /\ io_file' = WriteAt(io_file, io_offset,
                                 SubSeq(io_buffer, written + 1, written + ret))
                    /\ written' = written + ret
                    /\ IF build = "debug"
                          /\ OffAddOverflows(io_offset, written')
                       THEN /\ io_pc' = "panic"
                            /\ UNCHANGED io_offset
                       ELSE /\ io_pc' = io_pc
                            /\ io_offset' =
                                  AdvanceOffset(io_offset, written', ret)
                    /\ io_result' = io_result
    /\ UNCHANGED <<collected, args, env, orch, file, prod, cons, pq, cq, hist,
                   platform,
                   io_op, io_arg, io_err, io_buffer, data_read>>

\* the bytes the caller of write_bytes_at passes: byte 11, 12, ...
DataByte(k) == 10 + k

\* A call of one primitive: a buffer of len bytes, a file of flen bytes
\* holding the pattern, the offset off, the offsets the OS fails on.
IoInit ==
    \E op \in {"read", "write"}, pf \in {"unix", "windows"},
       bd \in {"debug", "release"}, len \in 0 .. MaxLen, flen \in 0 .. MaxFile,
       off \in 0 .. MaxOff :
        \E bad \in {{}} \cup {{o} : o \in off .. (off + len)} :
        LET buf == [k \in 1 .. len |->
                       IF op = "read" THEN Uninit ELSE DataByte(k)]
            f == [k \in 1 .. flen |-> PatternByte(k - 1)]
        IN /\ PipelineState(0, 1, 1, 1, 1, bd, {}, NoIoFailure)
           /\ platform = pf
           /\ io_op = op
           /\ io_arg = [offset |-> off, buffer |-> buf, file |-> f]
           /\ io_err = bad
           /\ io_buffer = buf
           /\ io_file = f
           /\ io_offset = off
           /\ data_read = 0
           /\ written = 0
           /\ io_pc = "loop"
           /\ io_result = None
           /\ rets = {}

IoNext == read_bytes_at \/ write_bytes_at

\* A thread inside a primitive keeps running: a pass that can change the
\* state is eventually taken.
FairIoSpec == IoInit /\ [][IoNext]_vars /\ WF_vars(IoNext)

\* ------------------------------------------------------------------ read_file
\* The partition of a file of n bytes among p producers and k tasks each:
\* producer_chunk = ceil(n / p), the last producer gets what is left (0 when
\* producer_chunk * (p - 1) >= n), task_chunk = ceil(share / k).
ReadPartition(n, p, k) ==
    LET pc == (n + p - 1) \div p
        last == IF pc * (p - 1) >= n THEN 0 ELSE n - (p - 1) * pc
    IN [producer_chunk |-> pc,
        last_share |-> last,
        task_chunk |-> (pc + k - 1) \div k,
        last_task_chunk |-> (last + k - 1) \div k]

ReadShare(pt, i) ==
    IF i # num_producers - 1 THEN pt.producer_chunk ELSE pt.last_share
ReadStart(pt, i) == i * pt.producer_chunk
ReadTaskChunk(pt, i) ==
    IF i # num_producers - 1 THEN pt.task_chunk ELSE pt.last_task_chunk
\* R, the largest chunk of the partition
ReadMaxChunk(pt) == Max(pt.task_chunk, pt.last_task_chunk)

\* read_at(buffer, file, offset) fails on an OS error and on a short read
ReadFails(off) == ioFail.op = "read" /\ ioFail.at = off
read_at_fails(f, off, len) == ReadFails(off) \/ off + len > Len(f)
\* and otherwise fills the buffer from the file starting at offset
read_at(f, off, len) == SubSeq(f, off + 1, off + len)

\* (mutant) the callback returns the chunk without its offset
consumeAtZero(buffer, off) == [offset |-> 0, data |-> buffer]

\* The consumer callback of the read test (tests/read-write.rs, lines
\* 60-65): it returns the offset and a copy of the bytes.
consume(buffer, off) == [offset |-> off, data |-> buffer]

\* What the read test builds from the returned list (tests/read-write.rs,
\* lines 77-84): every chunk written at its offset into an empty vector.
RECURSIVE Reassemble(_)
Reassemble(v) ==
    IF v = <<>> THEN <<>>
    ELSE LET x == v[Len(v)]
         IN WriteAt(Reassemble(SubSeq(v, 1, Len(v) - 1)), x.ret.offset,
                    x.ret.data)

\* A file of n bytes holding the pattern, no thread started; the read at
\* one offset may fail.
ReadInit ==
    \E n \in 0 .. MaxN, p \in 1 .. MaxP, c \in 1 .. MaxC, k \in 1 .. MaxK,
       b \in 1 .. MaxB :
        \E io \in {NoIoFailure} \cup {IoPlan("read", o) : o \in 0 .. (n - 1)} :
            /\ PipelineIdle(n, p, c, k, b, "release", {}, io)
            /\ file = [exists |-> TRUE,
                       data |-> [x \in 1 .. n |-> PatternByte(x - 1)]]
            /\ PrimIdle

\* read_file up to the join: the partition is computed, the consumers and
\* then the producers are built, and min(B, K) buffers of capacity 2R are
\* queued for each producer before any worker runs.
ReadFileStart ==
    /\ opc = "start"
    /\ LET pt == ReadPartition(total_size, num_producers, chunks_per_producer)
           nb == Min(num_buffers_per_producer, chunks_per_producer)
           seed(i, b) ==
               Produce([offset |-> ReadStart(pt, i), producer_tx |-> i,
                        chunk_id |-> 0],
                       [id |-> <<i, b - 1>>, cap |-> 2 * ReadMaxChunk(pt),
                        data |-> <<>>])
       IN /\ offset' = [i \in Producers |-> ReadStart(pt, i)]
          /\ end_offset' = [i \in Producers |->
                               ReadStart(pt, i) + ReadShare(pt, i)]
          /\ pq' = [i \in Producers |-> [b \in 1 .. nb |-> seed(i, b)]]
          /\ created' = num_producers * nb
    /\ opc' = "join"
    /\ cpc' = [c \in Consumers |-> "recv"]
    /\ ppc' = [i \in Producers |-> "recv"]
    /\ prev_consumer' = [i \in Producers |-> i]
    /\ UNCHANGED <<prim, collected, args, env, sz, li, lb, h, bytes_consumed,
                   result, file, psz, producers_end_signal_count, bytes, cres,
                   cq, calls, sent, writes, ends>>

\* A producer whose share is empty emits End at once, without any Consume.
ReadProducerEmpty(i) ==
    /\ ppc[i] = "recv"
    /\ offset[i] >= end_offset[i]
    /\ cq' = Broadcast(cq, End(i, num_producers))
    /\ ppc' = [ppc EXCEPT ![i] = "ok"]
    /\ pq' = [pq EXCEPT ![i] = <<>>]
    /\ UNCHANGED <<prim, collected, args, env, orch, file, psz, end_offset,
                   offset, prev_consumer, cons, hist>>

\* One pass of the loop of producer i, read variant: receive a buffer, set
\* its length to the chunk, read_at, send Consume to the next consumer in
\* round robin, and broadcast End when the range is exhausted.
ReadProducer(i) ==
    /\ ppc[i] = "recv"
    /\ offset[i] < end_offset[i]
    /\ pq[i] # <<>>
    /\ LET pt == ReadPartition(total_size, num_producers, chunks_per_producer)
           msg == Head(pq[i])
           len == Min(ReadTaskChunk(pt, i), end_offset[i] - offset[i])
           c == (prev_consumer[i] + 1) % num_consumers
           id == i * chunks_per_producer
                     + (offset[i] - ReadStart(pt, i)) \div ReadTaskChunk(pt, i)
           buffer == [msg.buffer EXCEPT
                         !.data = read_at(file.data, offset[i], len)]
           cfg == [msg.cfg EXCEPT !.offset = offset[i], !.chunk_id = id]
           next == offset[i] + len
           queued == [cq EXCEPT ![c] = Append(@, Consume(cfg, buffer))]
       IN IF read_at_fails(file.data, offset[i], len)
          THEN \* positional I/O error: fatal, the worker exits
               /\ ppc' = [ppc EXCEPT ![i] = "err"]
               /\ pq' = [pq EXCEPT ![i] = <<>>]
               /\ UNCHANGED <<offset, prev_consumer, cq, sent>>
          ELSE /\ offset' = [offset EXCEPT ![i] = next]
               /\ prev_consumer' = [prev_consumer EXCEPT ![i] = c]
               /\ IF ~ConsumerAlive(c)
                  THEN \* consumer send failure: fatal
                       /\ ppc' = [ppc EXCEPT ![i] = "err"]
                       /\ pq' = [pq EXCEPT ![i] = <<>>]
                       /\ UNCHANGED <<cq, sent>>
                  ELSE /\ sent' = [sent EXCEPT ![i] =
                             Append(@, [offset |-> cfg.offset,
                                        len |-> Len(buffer.data),
                                        consumer |-> c,
                                        id |-> buffer.id])]
                       /\ IF next >= end_offset[i]
                          THEN /\ cq' = Broadcast(queued,
                                                  End(i, num_producers))
                               /\ ppc' = [ppc EXCEPT ![i] = "ok"]
                               /\ pq' = [pq EXCEPT ![i] = <<>>]
                          ELSE /\ cq' = queued
                               /\ ppc' = ppc
                               /\ pq' = [pq EXCEPT ![i] = Tail(@)]
    /\ UNCHANGED <<prim, collected, args, env, orch, file, psz, end_offset,
                   cons, calls, writes, created, ends>>

\* One pass of the loop of consumer c, read variant: on Consume invoke the
\* callback with the bytes and cfg.offset, record what it returns with the
\* chunk id and return the buffer to its producer; on End count it and exit
\* when P were counted.
ReadConsumer(c) ==
    /\ cpc[c] = "recv"
    /\ cq[c] # <<>>
    /\ LET msg == Head(cq[c])
       IN IF msg.type = "Consume"
          THEN /\ calls' = [calls EXCEPT ![msg.cfg.producer_tx] =
                     Append(@, [offset |-> msg.cfg.offset,
                                len |-> Len(msg.buffer.data),
                                id |-> msg.buffer.id, ok |-> TRUE])]
               /\ collected' = [collected EXCEPT ![c] =
                     Append(@, [chunk_id |-> msg.cfg.chunk_id,
                                ret |-> consume(msg.buffer.data,
                                                msg.cfg.offset)])]
               /\ pq' = ReturnBuffer(pq, msg.cfg, msg.buffer)
               /\ cq' = [cq EXCEPT ![c] = Tail(@)]
               /\ UNCHANGED <<cpc, producers_end_signal_count, cres, ends>>
          ELSE /\ producers_end_signal_count' =
                      [producers_end_signal_count EXCEPT ![c] = @ + 1]
               /\ ends' = [ends EXCEPT ![c] = Append(@, msg.prod_id)]
               /\ IF producers_end_signal_count[c] + 1 = msg.num_producers
                  THEN /\ cpc' = [cpc EXCEPT ![c] = "ok"]
                       /\ cres' = [cres EXCEPT ![c] = OkUnit]
                       /\ cq' = [cq EXCEPT ![c] = <<>>]
                  ELSE /\ cq' = [cq EXCEPT ![c] = Tail(@)]
                       /\ UNCHANGED <<cpc, cres>>
               /\ UNCHANGED <<calls, collected, pq>>
    /\ UNCHANGED <<prim, args, env, orch, file, prod, bytes, sent, writes,
                   created>>

\* The producers hold the input handles of the consumers: the channel of a
\* consumer is closed when no producer runs and no config is in flight.
ReadConsumerHasSender(c) ==
    \/ \E i \in Producers : ProducerAlive(i)
    \/ \E m \in InFlight : CarriesConfig(m)

\* A closed input channel is pipeline shutdown: the consumer exits with
\* what it has accumulated.
ReadConsumerDisconnected(c) ==
    /\ cpc[c] = "recv"
    /\ cq[c] = <<>>
    /\ ~ReadConsumerHasSender(c)
    /\ cpc' = [cpc EXCEPT ![c] = "ok"]
    /\ cres' = [cres EXCEPT ![c] = OkUnit]
    /\ UNCHANGED <<prim, collected, args, env, orch, file, prod,
                   producers_end_signal_count, bytes, pq, cq, hist>>

\* the lists of the consumers 0 .. c, one after the other
RECURSIVE CollectedUpTo(_)
CollectedUpTo(c) ==
    IF c < 0 THEN <<>> ELSE CollectedUpTo(c - 1) \o collected[c]

\* read_file joins the workers and returns the collected (chunk id, R)
\* pairs, or the error of a producer.
ReadFileJoin ==
    /\ opc = "join"
    /\ \A c \in Consumers : cpc[c] \in {"ok", "err"}
    /\ \A i \in Producers : ppc[i] \in {"ok", "err"}
    /\ opc' = "done"
    /\ result' = IF \E i \in Producers : ppc[i] = "err" THEN ErrIO
                 ELSE [kind |-> "Ok",
                       list |-> CollectedUpTo(num_consumers - 1)]
    /\ UNCHANGED <<prim, collected, args, env, sz, li, lb, h, bytes_consumed,
                   file, prod, cons, pq, cq, hist>>

ReadNext ==
    \/ ReadFileStart
    \/ ReadFileJoin
    \/ \E i \in Producers : ReadProducerEmpty(i)
    \/ \E i \in Producers : ReadProducer(i)
    \/ \E c \in Consumers : ReadConsumer(c)
    \/ \E c \in Consumers : ReadConsumerDisconnected(c)

ReadSpec == ReadInit /\ [][ReadNext]_vars

\* ==================================================================== claims
NoInjectedFailure == failAt = {} /\ ioFail = NoIoFailure
ReturnedOk == opc = "done" /\ result.kind = "Ok"

\* every Consume message sent so far, as <<producer, position in sent>>
SentKeys == UNION {{<<i, k>> : k \in 1 .. Len(sent[i])} : i \in Producers}
SentChunk(x) == sent[x[1]][x[2]]

\* C1: the chunks dispatched so far lie inside [0, N) and no two of them
\* overlap; once write_to_file has returned Ok every byte position below N
\* is inside some dispatched chunk.
C1_ChunksPartition ==
    /\ \A x \in SentKeys : SentChunk(x).offset + SentChunk(x).len <= total_size
    /\ \A x, y \in SentKeys :
          x # y => \/ SentChunk(x).offset + SentChunk(x).len <= SentChunk(y).offset
                   \/ SentChunk(y).offset + SentChunk(y).len <= SentChunk(x).offset
    /\ ReturnedOk =>
          \A b \in 0 .. (total_size - 1) : \E x \in SentKeys :
              /\ SentChunk(x).offset <= b
              /\ b < SentChunk(x).offset + SentChunk(x).len

C1_Witness ==
    /\ ReturnedOk
    /\ total_size = 3 /\ num_producers = 2 /\ chunks_per_producer >= 2
    /\ Len(sent[0]) = 2 /\ Len(sent[1]) = 1

\* C2: when write_to_file has returned Ok the file holds the pattern, byte
\* for byte.
C2_RoundTrip ==
    ReturnedOk =>
        file.data = [k \in 1 .. total_size |-> PatternByte(k - 1)]

C2_Witness ==
    /\ ReturnedOk
    /\ total_size = 3 /\ num_producers = 2 /\ num_consumers = 2
    /\ Cardinality(writes) = 3
    /\ file.data = <<1, 2, 3>>

\* sum of f over the finite set S of its domain
RECURSIVE SumOver(_, _)
SumOver(f, S) ==
    IF S = {} THEN 0
    ELSE LET x == CHOOSE y \in S : TRUE IN f[x] + SumOver(f, S \ {x})

\* C3: when write_to_file has returned Ok(n), n is the sum of the byte counts
\* of the consumers, the length of the file, and the requested size.
C3_ByteAccounting ==
    ReturnedOk =>
        /\ result.bytes = SumOver(bytes, Consumers)
        /\ result.bytes = Len(file.data)
        /\ Len(file.data) = total_size

C3_Witness ==
    /\ ReturnedOk
    /\ result.bytes = 3
    /\ num_consumers = 2 /\ bytes[0] > 0 /\ bytes[1] > 0

\* some invocation of the callback has returned Err
FailedCalls ==
    UNION {{<<i, k>> : k \in {j \in 1 .. Len(calls[i]) : ~calls[i][j].ok}}
           : i \in Producers}
CallbackFailed == FailedCalls # {}

ProducerTerminated(i) == ppc[i] \in {"ok", "err", "panic"}
ConsumerTerminated(c) == cpc[c] \in {"ok", "err", "panic"}
AllTerminated ==
    /\ opc = "done"
    /\ \A i \in Producers : ProducerTerminated(i)
    /\ \A c \in Consumers : ConsumerTerminated(c)

\* launch has run its loops to the end and returned Ok
LaunchReturnedOk == li = num_producers

\* no step of any thread is possible any more
Quiescent == ~ENABLED Next

\* C4: when the callback has failed on exactly one chunk and no I/O
\* operation fails, a write_to_file that has returned has returned
\* Err(Producer(e)) with e.offset the offset of that chunk.
C4_ErrorPropagation ==
    (/\ total_size > 0
     /\ ioFail = NoIoFailure
     /\ Cardinality(FailedCalls) = 1
     /\ opc = "done")
    => \E x \in FailedCalls :
          result = [kind |-> "Producer", offset |-> calls[x[1]][x[2]].offset]

\* C5: once a callback has returned Err, write_to_file eventually returns
\* and every producer and consumer thread eventually terminates.
C5_NoLeakOnCallbackFailure == CallbackFailed ~> AllTerminated

C5_Witness ==
    /\ CallbackFailed
    /\ AllTerminated
    /\ num_producers >= 2 /\ num_consumers = 2
    /\ \E i \in Producers : ppc[i] = "ok"
    /\ result.kind = "Producer"

\* C6: when the open or the positional write of a consumer has failed (and
\* launch has returned Ok, no callback fails), then once no thread can take
\* a step write_to_file has returned Err(IO).
C6_IoFailureSurfaced ==
    (/\ failAt = {}
     /\ \E c \in Consumers : cpc[c] = "err" /\ cres[c] = ErrIO
     /\ LaunchReturnedOk
     /\ Quiescent)
    => (opc = "done" /\ result = ErrIO)

\* number of buffers queued in some channel
BuffersQueued ==
    SumOver([i \in Producers |-> Len(pq[i])], Producers)
    + SumOver([c \in Consumers |->
                  Cardinality({k \in 1 .. Len(cq[c]) :
                                  CarriesConfig(cq[c][k])})], Consumers)

C8_ZeroLengthWrite ==
    (/\ total_size = 0
     /\ NoInjectedFailure
     /\ opc \in {"done", "panic", "abort"})
    => result = Ok(0)

\* C9: whenever a producer or consumer thread has been started or a
\* positional write has been done, the file exists and is N bytes long.
C9_TruncatedBeforeWrites ==
    (\/ \E i \in Producers : ppc[i] # "unborn"
     \/ \E c \in Consumers : cpc[c] # "unborn"
     \/ writes # {})
    => (file.exists /\ Len(file.data) = total_size)

C9_Witness ==
    /\ total_size = 3
    /\ Cardinality(writes) >= 2
    /\ opc = "launch"

\* the invocation of the callback by producer i at offset off, if any
CallAt(i, off) == {k \in 1 .. Len(calls[i]) : calls[i][k].offset = off}

\* C10: the invocations of the callback by a producer start at its first
\* offset, each with the length of the chunk, each where the previous chunk
\* ended; a Consume message carries the offset, the buffer and the bytes of
\* one successful invocation; every positional write is that of one message.
C10_CallbackContract ==
    /\ \A i \in Producers : \A k \in 1 .. Len(calls[i]) :
          /\ calls[i][k].offset =
                IF k = 1 THEN StartOffset(psz, i)
                ELSE calls[i][k - 1].offset + calls[i][k - 1].len
          /\ calls[i][k].len =
                Min(IF i # num_producers - 1 THEN psz.task_chunk_size
                    ELSE psz.last_prod_task_chunk_size,
                    end_offset[i] - calls[i][k].offset)
          /\ k > 1 => calls[i][k - 1].len > 0
    /\ \A c \in Consumers : \A k \in 1 .. Len(cq[c]) :
          cq[c][k].type = "Consume" =>
             \E j \in CallAt(cq[c][k].cfg.producer_tx, cq[c][k].cfg.offset) :
                LET call == calls[cq[c][k].cfg.producer_tx][j]
                IN /\ call.ok
                   /\ call.id = cq[c][k].buffer.id
                   /\ call.len = Len(cq[c][k].buffer.data)
                   /\ cq[c][k].buffer.data = FillBuffer(call.offset, call.len)
    /\ \A w \in writes :
          \E j \in CallAt(w.id[1], w.offset) :
             LET call == calls[w.id[1]][j]
             IN /\ call.ok
                /\ call.id = w.id
                /\ w.data = FillBuffer(call.offset, call.len)
    /\ ReturnedOk =>
          \A i \in Producers :
             /\ calls[i] # <<>>
             /\ calls[i][Len(calls[i])].offset + calls[i][Len(calls[i])].len
                    = end_offset[i]

C10_Witness ==
    /\ ReturnedOk
    /\ total_size = 3 /\ num_producers = 2 /\ num_consumers = 2
    /\ Len(calls[0]) = 2
    /\ Cardinality(writes) = 3

\* The runs in which the callback may fail and no I/O operation does.  The
\* scheduler runs every thread that can take a step, so some enabled step
\* is eventually taken.
InitCallbackFailure ==
    \E n \in 0 .. MaxN, p \in 1 .. MaxP, c \in 1 .. MaxC, k \in 1 .. MaxK,
       b \in 1 .. MaxB, bd \in {"debug", "release"} :
        \E o \in 0 .. n : InitState(n, p, c, k, b, bd, {o}, NoIoFailure)

FairSpecCallbackFailure ==
    InitCallbackFailure /\ [][Next]_vars /\ WF_vars(Next)

\* the call of the primitive has returned
IoReturned == io_pc = "done"
\* every OS call so far transferred at least one byte
OnlyPartialTransfers == \A r \in rets : r >= 1

\* C12: when read_bytes_at has returned after OS reads that each
\* transferred at least one byte, it has returned Ok and the buffer holds
\* the bytes of the file at [offset, offset + len).
C12_PartialReadsFillBuffer ==
    (io_op = "read" /\ IoReturned /\ OnlyPartialTransfers)
    => /\ io_result = OkUnit
       /\ io_buffer = SubSeq(io_arg.file, io_arg.offset + 1,
                             io_arg.offset + Len(io_arg.buffer))

\* C13: when write_bytes_at has returned after OS writes that each
\* transferred at least one byte, it has returned Ok, the file holds the
\* buffer at [offset, offset + len) and every other byte is as it was.
C13_PartialWritesLandInPlace ==
    (io_op = "write" /\ IoReturned /\ OnlyPartialTransfers)
    => /\ io_result = OkUnit
       /\ io_file = IF io_arg.buffer = <<>> THEN io_arg.file
                    ELSE WriteAt(io_arg.file, io_arg.offset, io_arg.buffer)

\* C14: once an OS read has returned 0 bytes (the file ended before the
\* buffer was full), read_bytes_at eventually returns, and returns an error.
C14_ShortReadFails ==
    (io_op = "read" /\ 0 \in rets)
    ~> (IoReturned /\ io_result.kind \in {"IO", "Other"})

\* C15: when an OS call has reported an error, the primitive has returned
\* the IO variant of its error type.
C15_OsErrorIsIO ==
    (-1 \in rets) => (IoReturned /\ io_result = ErrIO)

\* number of End messages of producer i queued for consumer c
EndsQueued(i, c) ==
    Cardinality({k \in 1 .. Len(cq[c]) :
                    cq[c][k].type = "End" /\ cq[c][k].prod_id = i})
\* number of End messages of producer i consumer c has handled
EndsHandled(i, c) ==
    Cardinality({k \in 1 .. Len(ends[c]) : ends[c][k] = i})

\* C16: a consumer thread that has returned Ok has handled one End message
\* of each of the P producers; a consumer thread that has ended otherwise
\* has returned an error; no consumer is ever sent two End messages by the
\* same producer.
C16_ConsumerExit ==
    /\ \A c \in Consumers :
          /\ cpc[c] = "ok" =>
                /\ cres[c].kind = "Ok"
                /\ Len(ends[c]) = num_producers
                /\ Range(ends[c]) = Producers
          /\ (ConsumerTerminated(c) /\ cpc[c] # "ok") =>
                /\ cpc[c] = "err"
                /\ cres[c].kind \in {"Producer", "IO", "Other"}
    /\ \A c \in Consumers : \A i \in Producers :
          EndsQueued(i, c) + EndsHandled(i, c) <= 1

C16_Witness ==
    /\ num_producers = 3 /\ num_consumers = 2
    /\ cpc[0] = "ok" /\ cpc[1] = "ok"
    /\ Len(ends[0]) = 3 /\ Len(ends[1]) = 3

\* C17: a consumer whose receive has failed because its channel is empty
\* and disconnected has left its loop and returned.
C17_ClosedInputShutdown ==
    \A c \in Consumers :
        (cpc[c] \notin {"unborn", "open", "recv"}) => ConsumerTerminated(c)

\* the buffers allocated so far: launch numbers them <<producer, k>>
BufferIds ==
    {m.buffer.id : m \in {x \in InFlight : CarriesConfig(x)}}
        \cup {w.id : w \in writes}
        \cup UNION {{calls[i][k].id : k \in 1 .. Len(calls[i])}
                    : i \in Producers}
\* in how many places of the channels the buffer is
PlacesIn(q, id) ==
    SumOver([x \in DOMAIN q |->
                Cardinality({k \in 1 .. Len(q[x]) :
                    CarriesConfig(q[x][k]) /\ q[x][k].buffer.id = id})],
            DOMAIN q)
\* how often the callback was given the buffer, how often it was written
TimesFilled(id) ==
    SumOver([i \in Producers |->
                Cardinality({k \in 1 .. Len(calls[i]) : calls[i][k].id = id})],
            Producers)
TimesWritten(id) == Cardinality({w \in writes : w.id = id})

\* C18: every buffer is in at most one place of one channel; a buffer
\* queued for a producer has been written as often as it was filled, a
\* buffer queued for a consumer was filled once more than it was written,
\* and a buffer in no channel was dropped in one of these two conditions.
C18_ExclusiveOwnership ==
    \A id \in BufferIds :
        /\ PlacesIn(pq, id) + PlacesIn(cq, id) <= 1
        /\ PlacesIn(pq, id) = 1 => TimesFilled(id) = TimesWritten(id)
        /\ PlacesIn(cq, id) = 1 => TimesFilled(id) = TimesWritten(id) + 1
        /\ TimesFilled(id) - TimesWritten(id) \in {0, 1}

C18_Witness ==
    /\ num_producers = 1 /\ num_consumers = 2
    /\ \E id, other \in BufferIds :
          /\ id # other
          /\ TimesFilled(id) = 2 /\ TimesWritten(id) = 1
          /\ PlacesIn(cq, id) = 1
          /\ TimesWritten(other) = 1

\* C19: a Produce message queued for producer i carries a buffer seeded for
\* producer i and a config whose producer_tx is i; a Consume message carries
\* the producer_tx of the producer its buffer was seeded for and was sent by
\* that producer.
C19_NoBufferMigration ==
    /\ \A i \in Producers : \A k \in 1 .. Len(pq[i]) :
          /\ pq[i][k].buffer.id[1] = i
          /\ pq[i][k].cfg.producer_tx = i
    /\ \A c \in Consumers : \A k \in 1 .. Len(cq[c]) :
          cq[c][k].type = "Consume" =>
              cq[c][k].cfg.producer_tx = cq[c][k].buffer.id[1]
    /\ \A i \in Producers : \A k \in 1 .. Len(sent[i]) :
          sent[i][k].id[1] = i

C19_Witness ==
    /\ num_producers = 2
    /\ \E k \in 1 .. Len(pq[0]) : TimesWritten(pq[0][k].buffer.id) >= 1
    /\ \E w \in writes : w.id[1] = 1

\* C20: the callback is never invoked for a chunk of length zero and no
\* Consume message carries a buffer of length zero.
C20_EmptyRangesDispatchNothing ==
    /\ \A i \in Producers : \A k \in 1 .. Len(calls[i]) : calls[i][k].len > 0
    /\ \A i \in Producers : \A k \in 1 .. Len(sent[i]) : sent[i][k].len > 0

\* every invocation of the consumer callback so far, as <<producer, k>>
ObservedKeys == UNION {{<<i, k>> : k \in 1 .. Len(calls[i])} : i \in Producers}
Observed(x) == calls[x[1]][x[2]]

QueuedAt(c, t, i) ==
    {k \in 1 .. Len(cq[c]) :
        /\ cq[c][k].type = t
        /\ IF t = "End" THEN cq[c][k].prod_id = i
           ELSE cq[c][k].cfg.producer_tx = i}

\* C21: the Consume messages of a producer start at its first offset, each
\* starts where the one before ended and at a larger offset; in no channel
\* is a Consume message of a producer queued behind its End message, and a
\* producer whose End message was sent has returned.
C21_DispatchOrder ==
    /\ \A i \in Producers : \A k \in 1 .. Len(sent[i]) :
          IF k = 1 THEN sent[i][k].offset = StartOffset(psz, i)
          ELSE /\ sent[i][k].offset = sent[i][k - 1].offset + sent[i][k - 1].len
               /\ sent[i][k].offset > sent[i][k - 1].offset
    /\ \A i \in Producers : \A c \in Consumers :
          /\ \A e \in QueuedAt(c, "End", i) : \A m \in QueuedAt(c, "Consume", i) :
                m < e
          /\ (QueuedAt(c, "End", i) # {} \/ EndsHandled(i, c) > 0) =>
                /\ ppc[i] = "ok"
                /\ sent[i] # <<>>
                /\ sent[i][Len(sent[i])].offset + sent[i][Len(sent[i])].len
                       >= end_offset[i]

C21_Witness ==
    /\ num_producers = 1 /\ num_consumers = 1 /\ total_size = 3
    /\ Len(sent[0]) = 3
    /\ Cardinality(QueuedAt(0, "Consume", 0)) = 2
    /\ QueuedAt(0, "End", 0) = {Len(cq[0])}

\* C22: producer i sends its j-th chunk (j = 0, 1, ...) to consumer
\* (i + 1 + j) mod C, and a chunk is queued for that consumer only.
C22_RoundRobin ==
    /\ \A i \in Producers : \A k \in 1 .. Len(sent[i]) :
          sent[i][k].consumer = (i + k) % num_consumers
    /\ \A i \in Producers : \A c \in Consumers :
          \A k \in QueuedAt(c, "Consume", i) :
             \E j \in 1 .. Len(sent[i]) :
                /\ sent[i][j].offset = cq[c][k].cfg.offset
                /\ sent[i][j].consumer = c
    /\ \A w \in writes :
          \E j \in 1 .. Len(sent[w.id[1]]) :
             /\ sent[w.id[1]][j].offset = w.offset
             /\ sent[w.id[1]][j].consumer = w.consumer

C22_Witness ==
    /\ num_producers = 2 /\ num_consumers = 2
    /\ Len(sent[0]) = 2 /\ Len(sent[1]) = 1
    /\ sent[0][1].consumer = 1 /\ sent[0][2].consumer = 0
    /\ sent[1][1].consumer = 0
    /\ Cardinality(writes) = 3

\* C23: while launch is still seeding the producers' queues no worker has
\* processed a message: no producer has invoked the callback and no
\* consumer has handled a Consume message.
C23_SeedingPrecedesConsumption ==
    opc = "launch" =>
        /\ \A i \in Producers : calls[i] = <<>>
        /\ \A i \in Producers : sent[i] = <<>>
        /\ writes = {}

\* consumer c takes a Consume message off its queue whose write succeeds
\* and whose producer has exited (only the consumer shortens its queue)
ReturnsToFinishedProducer(c) ==
    /\ opc # "abort"
    /\ cpc[c] = "recv"
    /\ cq[c] # <<>>
    /\ Head(cq[c]).type = "Consume"
    /\ ~WriteFails(ConsumerWriteOffset(Head(cq[c]).cfg))
    /\ ~ProducerAlive(Head(cq[c]).cfg.producer_tx)
    /\ Len(cq'[c]) < Len(cq[c])

\* C24: a consumer whose send of Produce back to an exited producer fails
\* drops the buffer (no producer queue changes), has the bytes of the chunk
\* in its count, has no result yet and goes on to receive the next message
\* of its queue.
C24_ReturnToFinishedProducer ==
    [][\A c \in Consumers :
          ReturnsToFinishedProducer(c) =>
             /\ pq' = pq
             /\ bytes'[c] = UAdd(bytes[c], Len(Head(cq[c]).buffer.data))
             /\ cpc'[c] = "recv"
             /\ cres'[c] = None
             /\ cq'[c] = Tail(cq[c])]_vars

C24_Witness ==
    \E w \in writes :
       /\ ppc[w.id[1]] = "ok"
       /\ w.offset + Len(w.data) = end_offset[w.id[1]]
       /\ Len(w.data) > 0
       /\ cpc[w.consumer] = "recv"
       /\ cres[w.consumer] = None
       /\ bytes[w.consumer] >= Len(w.data)
       /\ pq[w.id[1]] = <<>>

\* C25: the sizes of lines 144-152 are computed without underflow, and the
\* share of the last producer is at most producer_chunk_size.
C25_PartitionInRange ==
    opc # "start" =>
        /\ ~sz.overflow
        /\ sz.last_producer_chunk_size <= sz.producer_chunk_size

\* The runs on files of up to MaxNLong bytes with at most MaxPLong
\* producers, one consumer and no failing callback or I/O operation.
InitLongFile ==
    \E n \in 0 .. MaxNLong, p \in 1 .. MaxPLong, k \in 1 .. MaxK,
       b \in 1 .. MaxB, bd \in {"debug", "release"} :
        InitState(n, p, 1, k, b, bd, {}, NoIoFailure)

SpecLongFile == InitLongFile /\ [][Next]_vars

\* every buffer that is queued for a producer or for a consumer
QueuedBuffers == {m.buffer : m \in {x \in InFlight : CarriesConfig(x)}}

\* C26: every buffer, from its seeding by launch on, has a length of at
\* most its capacity 2 * reserved_size: no set_len goes past the capacity
\* and no process ends on the check of one.
C26_LengthWithinCapacity ==
    /\ \A buffer \in QueuedBuffers : Len(buffer.data) <= buffer.cap
    /\ ub = "none"
    /\ opc # "abort"

\* write_to_file has ended: it returned, or the process panicked or aborted
Ended == opc \in {"done", "panic", "abort"}

\* C27: a run in which no callback and no I/O operation fails does not end
\* in anything but Ok(N): once write_to_file has ended it has returned Ok
\* with every byte counted, every producer has dispatched its range and
\* every consumer has returned Ok.
C27_ErrorFreeTermination ==
    (NoInjectedFailure /\ Ended) =>
        /\ ReturnedOk
        /\ result = Ok(total_size)
        /\ \A i \in Producers : ppc[i] = "ok"
        /\ \A c \in Consumers : cpc[c] = "ok"

\* the chunk of a send record has been written by the consumer it went to
Written(x) ==
    \E w \in writes :
       /\ w.offset = x.offset
       /\ w.id = x.id
       /\ w.consumer = x.consumer
       /\ Len(w.data) = x.len

\* C28: when a consumer has returned Ok every chunk that any producer sent
\* to it has been written; while it runs, once the End messages it has
\* handled and the ones in its queue are P, no Consume message is queued
\* behind the last of them.
C28_NoChunkLostAtExit ==
    \A c \in Consumers :
       /\ cpc[c] = "ok" =>
             \A i \in Producers : \A k \in 1 .. Len(sent[i]) :
                sent[i][k].consumer = c => Written(sent[i][k])
       /\ (/\ cpc[c] = "recv"
           /\ producers_end_signal_count[c]
                 + SumOver([i \in Producers |-> EndsQueued(i, c)], Producers)
                 >= num_producers
           /\ cq[c] # <<>>)
          => cq[c][Len(cq[c])].type = "End"

C28_Witness ==
    \E c \in Consumers :
       /\ cpc[c] = "ok"
       /\ num_producers = 2 /\ num_consumers = 2
       /\ \E w1, w2 \in writes :
             /\ w1.consumer = c /\ w2.consumer = c
             /\ w1.id[1] = 0 /\ w2.id[1] = 1
             /\ Len(w1.data) > 0 /\ Len(w2.data) > 0

\* C29: when a callback has returned Err, write_to_file has not returned
\* Ok; the producer of the failed callback has sent no End message, and no
\* consumer has counted P End messages or returned Ok.
C29_FailedCallbackNeverOk ==
    CallbackFailed =>
        /\ ~ReturnedOk
        /\ \A x \in FailedCalls : \A c \in Consumers :
              EndsQueued(x[1], c) = 0 /\ EndsHandled(x[1], c) = 0
        /\ \A c \in Consumers :
              /\ producers_end_signal_count[c] < num_producers
              /\ cpc[c] # "ok"

C29_Witness ==
    /\ CallbackFailed
    /\ num_producers = 3 /\ num_consumers = 1
    /\ producers_end_signal_count[0] = 2
    /\ opc = "done"
    /\ result.kind = "Producer"

====
